---------------------------- MODULE Spec2Model ----------------------------
(***************************************************************************)
(* A model of the guideline catalog of arm5nextjs:                         *)
(*   src/src/data/guidelines.mjs        comparators, compareIgnoreUndefined *)
(*   src/src/data/guidelineActions.mjs  binarySearch and the catalog       *)
(*                                      operations on the module variable  *)
(*                                      guidelines (lines 1-221)           *)
(***************************************************************************)
EXTENDS Integers, Sequences, FiniteSets, TLC

VARIABLES guidelines, call, log, group, jobs

vars == <<guidelines, call, log, group, jobs>>

-----------------------------------------------------------------------------
(* The shapes of the records of the model.  Every record below lists its   *)
(* fields in the order they have here.                                     *)

\* A JavaScript value that is no object: records of one shape, so that any
\* two of them can be compared.
\*   t  the type tag
\*   n  the value of a number (0 otherwise)
\*   s  the UTF-16 code units of a string (<<>> otherwise)
\* The strings of the model hold letters, spaces, digits and full stops.
JsValue ==
    [t : {"string", "number", "boolean", "function", "NaN", "null", "undefined"},
     n : Int,
     s : Seq(Nat)]

\* A guideline or guideline key: an object with the properties form,
\* technique, level and name; a property that is not supplied reads as
\* undefined.
JsGuideline ==
    [t : {"object"}, form : JsValue, technique : JsValue, level : JsValue,
     name : JsValue]

\* The last call made and how it ended:
\*   op       the function called ("" before the first call)
\*   args     its arguments
\*   outcome  "resolved" or "rejected" (the promise an operation returns),
\*            "returned" or "threw" (a plain function), "diverges" (the
\*            call never ends), or "" (before the first call)
\*   value    the value a successful call ends with
\*   error, message  of the error a failed call ends with
\*   before   the catalog when the call was made
\*   search   how the call's binarySearch ended
CallRecord(Arguments, Results, Searches) ==
    [op : STRING, args : Arguments,
     outcome : {"", "resolved", "rejected", "returned", "threw", "diverges"},
     value : Results, error : STRING, message : STRING,
     before : Seq(JsGuideline), search : Searches]

\* How a call of binarySearch ended:
\*   value, error, message  the index returned, or the error thrown
\*   kind    "return", "throw", "diverges" (the loop never ends), or ""
\*           (no search was made)
\*   probes  the number of calls of the comparator made
SearchResult ==
    [value : JsValue, error : STRING, message : STRING,
     kind : {"", "return", "throw", "diverges"}, probes : Nat]

\* The guidelines passed to addGuideline so far (adds), kept while only
\* addGuideline has been called (tracked).
LogRecord == [tracked : BOOLEAN, adds : Seq(JsGuideline)]

\* An object given as the sqlFilter of the store-backed getGuidelines: props
\* are its own properties in the order of their names, each a pair
\* <<name, value>>, the name a string of code units.
JsObject == [t : {"object"}, props : Seq(Seq(Nat) \X JsValue)]

\* The query builder the store-backed getGuidelines reduces its sqlFilter to:
\*   whereClauses       the clauses of the WHERE condition, each a pair
\*                      <<field name, placeholder>>: the placeholder is
\*                      null in the clause "field IS NULL" and the value
\*                      written after the $ in the clause "field = $..."
\*   queryValues        the values bound to the placeholders of the query
\*   placeholderCount   the number of placeholders
\*   fieldPlaceholders  the pairs <<field name, placeholder>>
\*   orderClauses       the sort clauses added to the ORDER BY list, each a
\*                      pair <<field name, direction>>
QueryBuilder ==
    [whereClauses : Seq(Seq(Nat) \X JsValue), queryValues : Seq(JsValue),
     placeholderCount : Nat, fieldPlaceholders : Seq(Seq(Nat) \X Nat),
     orderClauses : Seq(Seq(Nat) \X JsValue)]

\* How the reduction of a sqlFilter ended: kind is "built", with the builder,
\* or "throw", with the error thrown.
BuildResult ==
    [error : STRING, message : STRING, kind : {"built", "throw"},
     builder : QueryBuilder]

\* A GuidelineGroupModel: its name and its members, in order.  A member is
\* a value; t is "GuidelineModel" in an instance of GuidelineModel and
\* "GuidelineGroupModel" in an instance of GuidelineGroupModel.
JsGroup == [t : {"GuidelineGroupModel"}, name : JsValue, members : Seq(JsValue)]

\* The single JavaScript thread and the calls of the catalog operations made
\* of it:
\*   running  the call whose body the thread is executing, or 0
\*   calls    the calls; of each, op and args, the index and the search
\*            result its search ended with (value, search), the catalog its
\*            search read (seen) and where it is (pc): "called" in its
\*            body before the search, "found"
\*            between the search and the mutation, "settled" once its body
\*            has ended, "observed" once its caller has continued with the
\*            result, "hung" in a search that never ends
JobState ==
    [running : Nat,
     calls : Seq([op : STRING, args : Seq(JsValue), value : JsValue,
                  search : SearchResult,
                  pc : {"called", "found", "settled", "observed", "hung"},
                  seen : Seq(JsGuideline)])]

-----------------------------------------------------------------------------
(* JavaScript values and the operators the source applies to them.         *)

Str(codeUnits) == [t |-> "string", n |-> 0, s |-> codeUnits]
Num(number) == [t |-> "number", n |-> number, s |-> <<>>]
NaN == [t |-> "NaN", n |-> 0, s |-> <<>>]
null == [t |-> "null", n |-> 0, s |-> <<>>]
undefined == [t |-> "undefined", n |-> 0, s |-> <<>>]

\* a === b: same type and same value; NaN is not equal to itself.
StrictEq(a, b) == a.t # "NaN" /\ a = b

\* a == null: true of null and of undefined only.
IsNullish(a) == a.t \in {"null", "undefined"}

\* Lexicographic order of two strings by code units.
StrLess(a, b) ==
    \E k \in 1..Len(b) :
        /\ k <= Len(a) + 1
        /\ \A j \in 1..(k - 1) : a[j] = b[j]
        /\ (k = Len(a) + 1 \/ a[k] < b[k])

IsDigits(s) == \A k \in 1..Len(s) : s[k] \in 48..57

RECURSIVE DecimalValue(_)
DecimalValue(s) ==
    IF s = <<>> THEN 0
    ELSE 10 * DecimalValue(SubSeq(s, 1, Len(s) - 1)) + (s[Len(s)] - 48)

\* ToNumber: null is 0, undefined is NaN, the empty string is 0, a string of
\* decimal digits is its value, any other string of the model is NaN.
ToNumber(a) ==
    CASE a.t = "number" -> a
      [] a.t = "null" -> Num(0)
      [] a.t = "string" -> IF IsDigits(a.s) THEN Num(DecimalValue(a.s)) ELSE NaN
      [] OTHER -> NaN

\* a < b: two strings compare by code units; otherwise both operands are
\* converted to numbers and the comparison is false when either is NaN.
JsLess(a, b) ==
    IF a.t = "string" /\ b.t = "string" THEN StrLess(a.s, b.s)
    ELSE LET x == ToNumber(a)
             y == ToNumber(b)
         IN  x.t = "number" /\ y.t = "number" /\ x.n < y.n

-----------------------------------------------------------------------------
(* The field comparators.  A comparison result is the JavaScript value the *)
(* source returns: -1, 0, 1 or undefined.                                  *)

artComparison(compared, comparee) ==
    IF JsLess(compared, comparee) THEN Num(-1)
    ELSE IF JsLess(comparee, compared) THEN Num(1)
    ELSE IF StrictEq(compared, comparee) THEN Num(0)
    ELSE undefined

compareLevel(compared, comparee) ==
    IF StrictEq(compared, comparee) \/ JsLess(compared, comparee) THEN Num(0)
    ELSE IF StrictEq(compared, null) THEN Num(-1)
    ELSE IF StrictEq(comparee, null) \/ JsLess(comparee, compared) THEN Num(1)
    ELSE undefined

compareName(compared, comparee) ==
    IF StrictEq(compared, comparee) THEN Num(0)
    ELSE IF JsLess(compared, comparee) THEN Num(-1)
    ELSE IF JsLess(comparee, compared) THEN Num(1)
    ELSE undefined

\* compareIgnoreUndefined(compare)(compared, comparee); compare is named by
\* the field it compares.
FieldCompare(field, compared, comparee) ==
    CASE field = "form" -> artComparison(compared, comparee)
      [] field = "technique" -> artComparison(compared, comparee)
      [] field = "level" -> compareLevel(compared, comparee)
      [] field = "name" -> compareName(compared, comparee)

\* A variant of compareIgnoreUndefined that ignores an undefined compared
\* value only.
compareIgnoreUndefinedCompared(field, compared, comparee) ==
    IF StrictEq(compared, undefined) THEN Num(0)
    ELSE FieldCompare(field, compared, comparee)

compareIgnoreUndefined(field, compared, comparee) ==
    IF StrictEq(compared, undefined) \/ StrictEq(comparee, undefined) THEN Num(0)
    ELSE FieldCompare(field, compared, comparee)

-----------------------------------------------------------------------------
(* Guidelines.  A guideline (or guideline key) is an object with the       *)
(* properties form, technique, level and name; a property that is not      *)
(* supplied reads as undefined.                                            *)

Guideline(form, technique, level, name) ==
    [t |-> "object", form |-> form, technique |-> technique,
     level |-> level, name |-> name]

\* if (result === 0) { result = next }: the next comparison decides when the
\* comparisons so far are ties.
ThenBy(result, next) == IF StrictEq(result, Num(0)) THEN next ELSE result

\* A variant of compareGuideline that compares the name before the level.
compareGuidelineNameFirst(compared, comparee) ==
    IF IsNullish(compared) \/ IsNullish(comparee) THEN undefined
    ELSE ThenBy(ThenBy(ThenBy(artComparison(compared.form, comparee.form),
                              artComparison(compared.technique, comparee.technique)),
                       compareName(compared.name, comparee.name)),
                compareLevel(compared.level, comparee.level))

\* undefined ?? 0: a variant of compareGuideline that reports a tie where
\* the chain could not order the operands.
TieIfUndefined(result) == IF StrictEq(result, undefined) THEN Num(0) ELSE result

compareGuidelineTieOnUndefined(compared, comparee) ==
    IF IsNullish(compared) \/ IsNullish(comparee) THEN Num(0)
    ELSE TieIfUndefined(
             ThenBy(ThenBy(ThenBy(artComparison(compared.form, comparee.form),
                                  artComparison(compared.technique, comparee.technique)),
                           compareLevel(compared.level, comparee.level)),
                    compareName(compared.name, comparee.name)))

compareGuideline(compared, comparee) ==
    IF IsNullish(compared) \/ IsNullish(comparee) THEN undefined
    ELSE ThenBy(ThenBy(ThenBy(artComparison(compared.form, comparee.form),
                              artComparison(compared.technique, comparee.technique)),
                       compareLevel(compared.level, comparee.level)),
                compareName(compared.name, comparee.name))

compareGuidelineKeys(compared, comparee) ==
    IF IsNullish(compared) \/ IsNullish(comparee) THEN undefined
    ELSE ThenBy(ThenBy(ThenBy(compareIgnoreUndefined("form", compared.form,
                                                     comparee.form),
                              compareIgnoreUndefined("technique", compared.technique,
                                                     comparee.technique)),
                       compareIgnoreUndefined("level", compared.level, comparee.level)),
                compareIgnoreUndefined("name", compared.name, comparee.name))

\* The comparator argument of binarySearch, named by the function passed.
Comparators == {"compareGuideline", "compareGuidelineKeys"}

Compare(comparator, a, b) ==
    CASE comparator = "compareGuideline" -> compareGuideline(a, b)
      [] comparator = "compareGuidelineKeys" -> compareGuidelineKeys(a, b)

-----------------------------------------------------------------------------
(* Arrays.  A JavaScript array is a sequence; index i of the source is     *)
(* position i + 1 of the sequence.                                         *)

Plus(a, b) ==
    LET x == ToNumber(a)
        y == ToNumber(b)
    IN  IF x.t = "number" /\ y.t = "number" THEN Num(x.n + y.n) ELSE NaN

Minus(a, b) ==
    LET x == ToNumber(a)
        y == ToNumber(b)
    IN  IF x.t = "number" /\ y.t = "number" THEN Num(x.n - y.n) ELSE NaN

\* Math.floor(a / 2)
FloorHalf(a) ==
    LET x == ToNumber(a)
    IN  IF x.t = "number" THEN Num(x.n \div 2) ELSE NaN

\* collection[i]: undefined when i is no index of the collection.
ElementAt(collection, i) ==
    IF i.t = "number" /\ i.n \in 0..(Len(collection) - 1)
    THEN collection[i.n + 1]
    ELSE undefined

\* collection.splice(start, deleteCount, ...items): the array afterwards.
\* A negative start counts from the end; start is clamped to [0, length].
SpliceStart(collection, start) ==
    LET x == ToNumber(start)
        len == Len(collection)
    IN  IF x.t # "number" THEN 0
        ELSE IF x.n < 0 THEN (IF len + x.n < 0 THEN 0 ELSE len + x.n)
        ELSE IF x.n > len THEN len
        ELSE x.n

Splice(collection, start, deleteCount, items) ==
    LET from == SpliceStart(collection, start)
        len == Len(collection)
        del == IF deleteCount > len - from THEN len - from ELSE deleteCount
    IN  SubSeq(collection, 1, from) \o items \o SubSeq(collection, from + del + 1, len)

\* The elements splice removes (its return value).
Spliced(collection, start, deleteCount) ==
    LET from == SpliceStart(collection, start)
        len == Len(collection)
        del == IF deleteCount > len - from THEN len - from ELSE deleteCount
    IN  SubSeq(collection, from + 1, from + del)

\* A variant of findIndex that finds the last entry of the name
\* (findLastIndex).
FindLastIndexByName(collection, name) ==
    LET hits == {k \in 1..Len(collection) : StrictEq(collection[k].name, name)}
    IN  IF hits = {} THEN Num(-1)
        ELSE Num((CHOOSE k \in hits : \A j \in hits : j <= k) - 1)

\* collection.findIndex(cursor => cursor.name === name): -1 when none.
FindIndexByName(collection, name) ==
    LET hits == {k \in 1..Len(collection) : StrictEq(collection[k].name, name)}
    IN  IF hits = {} THEN Num(-1)
        ELSE Num((CHOOSE k \in hits : \A j \in hits : k <= j) - 1)

-----------------------------------------------------------------------------
(* binarySearch.                                                           *)

Returns(value, probes) ==
    [value |-> value, error |-> "", message |-> "", kind |-> "return",
     probes |-> probes]

Throws(error, message, probes) ==
    [value |-> undefined, error |-> error, message |-> message, kind |-> "throw",
     probes |-> probes]

Diverges(probes) ==
    [value |-> undefined, error |-> "", message |-> "", kind |-> "diverges",
     probes |-> probes]

RECURSIVE searchLoop(_, _, _, _, _, _, _, _)

\* The body of the while loop, cmp being the comparator's answer for the
\* probed element, and the loop from the state the body leaves.  An
\* iteration that leaves (s, e, cmp) as it found them, with the loop
\* condition true, is repeated without end: the loop is deterministic in
\* (s, e, cmp).
searchStep(collection, seeked, comparator, i, s, e, previous, cmp, probes) ==
    IF StrictEq(cmp, undefined)
    THEN Throws("TypeError", "Incompatible seeked value", probes)
    ELSE IF JsLess(cmp, Num(0))
    THEN searchLoop(collection, seeked, comparator, i, s, i, cmp, probes)
    ELSE IF JsLess(Num(0), cmp)
    THEN searchLoop(collection, seeked, comparator, i, Plus(i, Num(1)), e, cmp, probes)
    ELSE IF cmp = previous THEN Diverges(probes)
    ELSE searchLoop(collection, seeked, comparator, i, s, e, cmp, probes)

\* The while loop of binarySearch from the loop state (s, e, cmp); i is set
\* once before the loop and never assigned in it.
searchLoop(collection, seeked, comparator, i, s, e, cmp, probes) ==
    IF JsLess(s, e) /\ StrictEq(cmp, Num(0))
    THEN searchStep(collection, seeked, comparator, i, s, e, cmp,
                    Compare(comparator, seeked, ElementAt(collection, i)), probes + 1)
    ELSE Returns(IF StrictEq(cmp, Num(0)) THEN i ELSE Minus(Num(-1), s), probes)

\* The search once the window is set: s = start, e = end ?? collection.length,
\* i = Math.floor((start + end) / 2).  collection.lenght is a property no
\* array has: it reads as undefined.
searchWindow(collection, seeked, comparator, s, e, i) ==
    IF JsLess(s, Num(0)) \/ JsLess(Num(Len(collection)), s)
    THEN Throws("RangeError", "Invalid start index of the search window.", 0)
    ELSE IF JsLess(e, Num(0)) \/ JsLess(undefined, e)
    THEN Throws("RangeError", "Invalid end index of the search window.", 0)
    ELSE searchLoop(collection, seeked, comparator, i, s, e, Num(0), 0)

\* binarySearch(collection, seeked, start, end, comparator); end is a number
\* or undefined (the default).
binarySearch(collection, seeked, start, end, comparator) ==
    searchWindow(collection, seeked, comparator, start,
                 IF IsNullish(end) THEN Num(Len(collection)) ELSE end,
                 FloorHalf(Plus(start, end)))

-----------------------------------------------------------------------------
(* The strings and guidelines the operations are called with.              *)

\* "Animal"
AnimalStr == <<65, 110, 105, 109, 97, 108>>
\* "Corpus"
CorpusStr == <<67, 111, 114, 112, 117, 115>>
\* "Vim"
VimStr == <<86, 105, 109>>
\* "Creo"
CreoStr == <<67, 114, 101, 111>>
\* "Perdo"
PerdoStr == <<80, 101, 114, 100, 111>>
\* "Create an animal"
CreateAnAnimalStr ==
    <<67, 114, 101, 97, 116, 101, 32, 97, 110, 32, 97, 110, 105, 109, 97, 108>>
\* "Destroy a specific kind of magical effect."
DestroyAKindStr ==
    <<68, 101, 115, 116, 114, 111, 121, 32, 97, 32, 115, 112, 101, 99, 105, 102,
      105, 99, 32, 107, 105, 110, 100, 32, 111, 102, 32, 109, 97, 103, 105, 99,
      97, 108, 32, 101, 102, 102, 101, 99, 116, 46>>
\* "Cure X"
CureXStr == <<67, 117, 114, 101, 32, 88>>
\* "Preserve Y"
PreserveYStr == <<80, 114, 101, 115, 101, 114, 118, 101, 32, 89>>
\* "Generic Z"
GenericZStr == <<71, 101, 110, 101, 114, 105, 99, 32, 90>>

\* The two guidelines the module variable guidelines is initialised with.
CreateAnAnimal == Guideline(Str(AnimalStr), Str(CreoStr), Num(20), Str(CreateAnAnimalStr))
DestroyAKind == Guideline(Str(VimStr), Str(PerdoStr), null, Str(DestroyAKindStr))

\* The guidelines of the insert scenario, one of another form, and one whose
\* level is not a number.
CureX == Guideline(Str(AnimalStr), Str(CreoStr), Num(5), Str(CureXStr))
PreserveY == Guideline(Str(AnimalStr), Str(CreoStr), Num(2), Str(PreserveYStr))
GenericZ == Guideline(Str(AnimalStr), Str(CreoStr), null, Str(GenericZStr))
CorpusCure == Guideline(Str(CorpusStr), Str(CreoStr), Num(5), Str(CureXStr))
NaNLevelCure == Guideline(Str(AnimalStr), Str(CreoStr), NaN, Str(CureXStr))

WellFormedGuidelines == {CreateAnAnimal, DestroyAKind, CureX, PreserveY, GenericZ, CorpusCure}
Guidelines == WellFormedGuidelines \cup {NaNLevelCure}

-----------------------------------------------------------------------------
(* Bounds of the model.                                                    *)

\* Spec calls addGuideline while the catalog holds fewer entries than this.
MaxLen == 3
\* AddSpec, which calls addGuideline alone, does so while the catalog holds
\* fewer entries than this.
MaxAddLen == 5
\* The calls are logged while they are the first MaxLog calls and all of
\* them are addGuideline calls.
MaxLog == 3
\* The longest collection binarySearch is applied to on its own.
MaxSearchLen == 2

\* The most initial members a GuidelineGroupModel is constructed with.
MaxMembers == 2

\* The most calls made of the catalog operations before their callers
\* continue.
MaxCalls == 2

-----------------------------------------------------------------------------
(* The state: guidelines, the module variable guidelines (the catalog);    *)
(* call, the last call; log, the addGuideline calls so far; group, the     *)
(* GuidelineGroupModel in use; jobs, the thread and the calls made of it.  *)

NoSearch == [value |-> undefined, error |-> "", message |-> "", kind |-> "", probes |-> 0]

NoCall ==
    [op |-> "", args |-> <<>>, outcome |-> "", value |-> undefined, error |-> "",
     message |-> "", before |-> <<>>, search |-> NoSearch]

Resolved(op, args, value, found) ==
    [op |-> op, args |-> args, outcome |-> "resolved", value |-> value, error |-> "",
     message |-> "", before |-> guidelines, search |-> found]

Rejected(op, args, error, message, found) ==
    [op |-> op, args |-> args, outcome |-> "rejected", value |-> undefined,
     error |-> error, message |-> message, before |-> guidelines, search |-> found]

\* The call never ends: its binarySearch does not.
Hangs(op, args, found) ==
    [op |-> op, args |-> args, outcome |-> "diverges", value |-> undefined,
     error |-> "", message |-> "", before |-> guidelines, search |-> found]

Untracked == [tracked |-> FALSE, adds |-> <<>>]

\* No GuidelineGroupModel has been constructed.
NoGroup == undefined

\* No call is made through the thread.
NoJobs == [running |-> 0, calls |-> <<>>]

\* a >= b
JsGreaterEq(a, b) ==
    ToNumber(a).t = "number" /\ ToNumber(b).t = "number" /\ ToNumber(a).n >= ToNumber(b).n

\* typeof a
TypeOf(a) ==
    CASE a.t \in {"object", "null"} -> "object"
      [] a.t \in {"number", "NaN"} -> "number"
      [] OTHER -> a.t

\* A synchronous loop that never ends blocks the single JavaScript thread:
\* no later call is served.
Serving == call.outcome # "diverges"

Init ==
    /\ group = NoGroup
    /\ jobs = NoJobs
    /\ guidelines = <<CreateAnAnimal, DestroyAKind>>
    /\ call = NoCall
    /\ log = [tracked |-> TRUE, adds |-> <<>>]

\* addGuideline once its binarySearch has ended as found.
addGuidelineAt(guideline, found) ==
    CASE found.kind = "throw" ->
             /\ call' = Rejected("addGuideline", <<guideline>>, found.error,
                                 found.message, found)
             /\ UNCHANGED guidelines
      [] found.kind = "diverges" ->
             /\ call' = Hangs("addGuideline", <<guideline>>, found)
             /\ UNCHANGED guidelines
      [] found.kind = "return" /\ JsGreaterEq(found.value, Num(0)) ->
             /\ call' = Rejected("addGuideline", <<guideline>>, "RangeError",
                                 "The guideline already exists", found)
             /\ UNCHANGED guidelines
      [] OTHER ->
             /\ guidelines' = Splice(guidelines, Minus(Num(-1), found.value), 0,
                                     <<guideline>>)
             /\ call' = Resolved("addGuideline", <<guideline>>,
                                 Guideline(guideline.form, guideline.technique,
                                           guideline.level, guideline.name),
                                 found)

\* addGuideline(guideline)
addGuideline(guideline) ==
    /\ Serving
    /\ addGuidelineAt(guideline,
                      binarySearch(guidelines, guideline, Num(0), Num(Len(guidelines)),
                                   "compareGuidelineKeys"))
    /\ UNCHANGED <<group, jobs>>
    /\ log' = IF log.tracked /\ Len(log.adds) < MaxLog
              THEN [log EXCEPT !.adds = Append(@, guideline)]
              ELSE Untracked

\* An updateGuideline that replaces the last entry of a catalog that has
\* one, whatever its binarySearch found.
updateGuidelineAtLast(guidelineKey, guideline, found) ==
    IF guidelines = <<>>
    THEN /\ call' = Rejected("updateGuideline", <<guidelineKey, guideline>>,
                             "NotFoundException", "The guideline does not exist", found)
         /\ UNCHANGED guidelines
    ELSE /\ guidelines' = Splice(guidelines, Num(Len(guidelines) - 1), 1, <<guideline>>)
         /\ call' = Resolved("updateGuideline", <<guidelineKey, guideline>>,
                             guidelines[Len(guidelines)], found)

\* updateGuideline once its binarySearch has ended as found.
updateGuidelineAt(guidelineKey, guideline, found) ==
    CASE found.kind = "throw" ->
             /\ call' = Rejected("updateGuideline", <<guidelineKey, guideline>>,
                                 found.error, found.message, found)
             /\ UNCHANGED guidelines
      [] found.kind = "diverges" ->
             /\ call' = Hangs("updateGuideline", <<guidelineKey, guideline>>, found)
             /\ UNCHANGED guidelines
      [] found.kind = "return" /\ JsGreaterEq(found.value, Num(0)) ->
             /\ guidelines' = Splice(guidelines, found.value, 1, <<guideline>>)
             /\ call' = Resolved("updateGuideline", <<guidelineKey, guideline>>,
                                 ElementAt(Spliced(guidelines, found.value, 1), Num(0)),
                                 found)
      [] OTHER ->
             /\ call' = Rejected("updateGuideline", <<guidelineKey, guideline>>,
                                 "NotFoundException", "The guideline does not exist",
                                 found)
             /\ UNCHANGED guidelines

\* updateGuideline(guidelineKey, guideline)
updateGuideline(guidelineKey, guideline) ==
    /\ Serving
    /\ updateGuidelineAt(guidelineKey, guideline,
                         binarySearch(guidelines, guideline, Num(0), undefined,
                                      "compareGuidelineKeys"))
    /\ UNCHANGED <<group, jobs>>
    /\ log' = Untracked

\* removeGuideline once index is set: an entry is removed when index >= 0.
removeGuidelineAt(guidelineKey, index, found) ==
    IF JsGreaterEq(index, Num(0))
    THEN /\ guidelines' = Splice(guidelines, index, 1, <<>>)
         /\ call' = Resolved("removeGuideline", <<guidelineKey>>,
                             ElementAt(Spliced(guidelines, index, 1), Num(0)), found)
    ELSE /\ call' = Resolved("removeGuideline", <<guidelineKey>>, undefined, found)
         /\ UNCHANGED guidelines

\* removeGuideline of an object (a key, or null) once its binarySearch has
\* ended as found.
removeGuidelineByKey(guidelineKey, found) ==
    CASE found.kind = "throw" ->
             /\ call' = Rejected("removeGuideline", <<guidelineKey>>, found.error,
                                 found.message, found)
             /\ UNCHANGED guidelines
      [] found.kind = "diverges" ->
             /\ call' = Hangs("removeGuideline", <<guidelineKey>>, found)
             /\ UNCHANGED guidelines
      [] OTHER -> removeGuidelineAt(guidelineKey, found.value, found)

\* removeGuideline(guidelineKey), guidelineKey a string (a name), an object
\* (a key, or null) or a value of another type.
removeGuideline(guidelineKey) ==
    /\ Serving
    /\ CASE TypeOf(guidelineKey) = "string" ->
                removeGuidelineAt(guidelineKey,
                                  FindIndexByName(guidelines, guidelineKey), NoSearch)
         [] TypeOf(guidelineKey) = "object" ->
                removeGuidelineByKey(guidelineKey,
                                     binarySearch(guidelines, guidelineKey, Num(0),
                                                  Num(Len(guidelines)),
                                                  "compareGuidelineKeys"))
         [] OTHER ->
                /\ call' = Resolved("removeGuideline", <<guidelineKey>>, undefined,
                                    NoSearch)
                /\ UNCHANGED guidelines
    /\ UNCHANGED <<group, jobs>>
    /\ log' = Untracked

\* The filters getGuidelines is called with: the default filter, which
\* accepts every guideline, one that accepts the guidelines of the form
\* Animal and one that accepts the generic guidelines (level null).
Filters == {"all", "form is Animal", "level is null"}

Accepts(filter, guideline) ==
    CASE filter = "all" -> TRUE
      [] filter = "form is Animal" -> StrictEq(guideline.form, Str(AnimalStr))
      [] filter = "level is null" -> StrictEq(guideline.level, null)

\* A variant of getGuidelines that resolves with the first accepted entry
\* alone (find in place of filter).
getGuidelinesFirstAccepted(filter) ==
    /\ Serving
    /\ call' = Resolved("getGuidelines", <<filter>>,
                        SubSeq(SelectSeq(guidelines,
                                         LAMBDA guideline : Accepts(filter, guideline)),
                               1, 1),
                        NoSearch)
    /\ UNCHANGED guidelines
    /\ UNCHANGED <<group, jobs>>
    /\ log' = Untracked

\* getGuidelines(filter)
getGuidelines(filter) ==
    /\ Serving
    /\ call' = Resolved("getGuidelines", <<filter>>,
                        SelectSeq(guidelines,
                                  LAMBDA guideline : Accepts(filter, guideline)),
                        NoSearch)
    /\ UNCHANGED guidelines
    /\ UNCHANGED <<group, jobs>>
    /\ log' = Untracked

\* The arguments removeGuideline is called with.
RemoveArguments ==
    Guidelines \cup {Str(g.name.s) : g \in Guidelines} \cup {null, undefined}

\* updateGuideline never reads guidelineKey.
UpdateKeys == {CreateAnAnimal, CureX}

Next ==
    \/ \E guideline \in Guidelines :
           Len(guidelines) < MaxLen /\ addGuideline(guideline)
    \/ \E guidelineKey \in UpdateKeys, guideline \in Guidelines :
           updateGuideline(guidelineKey, guideline)
    \/ \E guidelineKey \in RemoveArguments : removeGuideline(guidelineKey)
    \/ \E filter \in Filters : getGuidelines(filter)

Spec == Init /\ [][Next]_vars

\* The catalog under addGuideline calls alone.
AddNext ==
    \E guideline \in Guidelines :
        Len(guidelines) < MaxAddLen /\ addGuideline(guideline)

AddSpec == Init /\ [][AddNext]_vars

-----------------------------------------------------------------------------
(* binarySearch on its own: over every collection of at most MaxSearchLen  *)
(* guidelines, with every window and either guideline comparator.          *)

\* A key that supplies the form alone.
AnimalFormKey == Guideline(Str(AnimalStr), undefined, undefined, undefined)

SearchGuidelines == {CreateAnAnimal, DestroyAKind, CureX, CorpusCure, NaNLevelCure}

Collections == UNION {[1..n -> SearchGuidelines] : n \in 0..MaxSearchLen}

WindowIndices == {Num(n) : n \in -1..(MaxSearchLen + 1)}

SearchInit ==
    /\ group = NoGroup
    /\ jobs = NoJobs
    /\ guidelines \in Collections
    /\ call = NoCall
    /\ log = Untracked

\* The call record of a plain function that ended as found.
Searched(op, args, found) ==
    [op |-> op, args |-> args,
     outcome |-> CASE found.kind = "return" -> "returned"
                   [] found.kind = "throw" -> "threw"
                   [] OTHER -> "diverges",
     value |-> found.value, error |-> found.error, message |-> found.message,
     before |-> guidelines, search |-> found]

\* One call of binarySearch on the collection.
CallBinarySearch(seeked, start, end, comparator) ==
    /\ call.op = ""
    /\ call' = Searched("binarySearch", <<seeked, start, end, comparator>>,
                        binarySearch(guidelines, seeked, start, end, comparator))
    /\ UNCHANGED <<guidelines, log, group, jobs>>

SearchNext ==
    \E seeked \in SearchGuidelines \cup {AnimalFormKey},
       start \in WindowIndices,
       end \in WindowIndices \cup {undefined},
       comparator \in Comparators :
        CallBinarySearch(seeked, start, end, comparator)

SearchSpec == SearchInit /\ [][SearchNext]_vars

-----------------------------------------------------------------------------
(* The comparators on their own.                                           *)

\* Levels: the sentinel and numbers; and values that are no level.
Levels == {null, Num(-1), Num(0), Num(2), Num(5), Num(20)}
Names == {Str(CureXStr), Str(GenericZStr), Str(CreateAnAnimalStr)}
Arts == {Str(AnimalStr), Str(VimStr), Str(CreoStr)}
Values == Levels \cup Names \cup Arts \cup {NaN, undefined}

\* Keys whose fields are drawn apart, well formed or not.
CompareKeys ==
    {Guideline(form, technique, level, name) :
        form \in {Str(AnimalStr), Str(VimStr), undefined},
        technique \in {Str(CreoStr), Str(PerdoStr)},
        level \in {null, Num(2), Num(5), NaN},
        name \in {Str(CureXStr), Str(GenericZStr), Num(5)}}

\* Partial keys: keys that supply some of the four fields, and the key that
\* supplies none.
PartialKeys ==
    {AnimalFormKey,
     Guideline(Str(VimStr), undefined, undefined, undefined),
     Guideline(undefined, Str(CreoStr), undefined, undefined),
     Guideline(undefined, undefined, Num(5), undefined),
     Guideline(undefined, undefined, null, Str(GenericZStr)),
     Guideline(Str(AnimalStr), undefined, null, undefined),
     Guideline(undefined, undefined, undefined, Str(CureXStr)),
     Guideline(undefined, undefined, undefined, undefined)}

CompareInit ==
    /\ group = NoGroup
    /\ jobs = NoJobs
    /\ guidelines = <<>>
    /\ call = NoCall
    /\ log = Untracked

\* One call of a comparator.
Returned(op, args, value) ==
    /\ call.op = ""
    /\ call' = [op |-> op, args |-> args, outcome |-> "returned", value |-> value,
                error |-> "", message |-> "", before |-> guidelines,
                search |-> NoSearch]
    /\ UNCHANGED <<guidelines, log, group, jobs>>

CallArtComparison(compared, comparee) ==
    Returned("artComparison", <<compared, comparee>>, artComparison(compared, comparee))

CallCompareLevel(compared, comparee) ==
    Returned("compareLevel", <<compared, comparee>>, compareLevel(compared, comparee))

CallCompareName(compared, comparee) ==
    Returned("compareName", <<compared, comparee>>, compareName(compared, comparee))

CallCompareGuideline(compared, comparee) ==
    Returned("compareGuideline", <<compared, comparee>>,
             compareGuideline(compared, comparee))

CallCompareGuidelineKeys(compared, comparee) ==
    Returned("compareGuidelineKeys", <<compared, comparee>>,
             compareGuidelineKeys(compared, comparee))

CompareNext ==
    \/ \E compared \in Values, comparee \in Values :
           CallArtComparison(compared, comparee)
    \/ \E compared \in Values, comparee \in Values :
           CallCompareLevel(compared, comparee)
    \/ \E compared \in Values, comparee \in Values :
           CallCompareName(compared, comparee)
    \/ \E compared \in CompareKeys \cup {undefined}, comparee \in CompareKeys \cup {undefined} :
           CallCompareGuideline(compared, comparee)
    \/ \E compared \in CompareKeys \cup PartialKeys \cup {undefined},
          comparee \in CompareKeys \cup PartialKeys \cup {undefined} :
           CallCompareGuidelineKeys(compared, comparee)

CompareSpec == CompareInit /\ [][CompareNext]_vars

-----------------------------------------------------------------------------
(* The store-backed getGuidelines ("use server", lines 222-534): the filter *)
(* compiled to the WHERE condition of a query.                              *)

\* The names bound where getGuidelines runs: the imports and declarations of
\* the module and the globals of the runtime its body names.
ModuleScope ==
    {"revalidatePath", "compareIgnoreUndefined", "GuidelineModel",
     "NotFoundException", "guidelineKeyToString", "getGuidelineKey",
     "compareLevel", "compareName", "artComparison", "compareGuideline",
     "compareGuidelineKeys", "Pool", "Client", "pool", "initDatabase",
     "guidelines", "binarySearch", "validFieldName", "getGuidelines",
     "addGuideline", "updateGuideline", "removeGuideline",
     "handleCreateGuideline", "Object", "Promise", "Error", "console"}

\* Reading a name that is not bound throws ReferenceError.
IsBound(identifier) == identifier \in ModuleScope

ObjectOf(props) == [t |-> "object", props |-> props]

\* The accumulator the reduction starts with.
EmptyBuilder ==
    [whereClauses |-> <<>>, queryValues |-> <<>>, placeholderCount |-> 0,
     fieldPlaceholders |-> <<>>, orderClauses |-> <<>>]

Built(builder) ==
    [error |-> "", message |-> "", kind |-> "built", builder |-> builder]

BuildThrows(error, message) ==
    [error |-> error, message |-> message, kind |-> "throw", builder |-> EmptyBuilder]

\* validFieldName(fieldName) tests the name field, not its parameter
\* fieldName.
validFieldName(fieldName) ==
    IF IsBound("field") THEN Built(EmptyBuilder)
    ELSE BuildThrows("ReferenceError", "field is not defined")

\* The callback of the reduction for one property of sqlFilter: it calls
\* validFieldName(fieldName) first, and the error that call throws ends the
\* reduction.  Past that call, a property whose value is null adds the
\* clause "field IS NULL", and a property of another value counts a
\* placeholder, adds a clause, a bound value and the placeholder of the
\* field; the clause is written with result[2], a property the builder does
\* not have (undefined), not with result.placeholderCount.  (The names of an
\* object are distinct: no field has a placeholder when its turn comes.)
whereStep(result, prop) ==
    IF validFieldName(prop[1]).kind = "throw" THEN validFieldName(prop[1])
    ELSE IF prop[2] = null
    THEN Built([result EXCEPT !.whereClauses = Append(@, <<prop[1], null>>)])
    ELSE Built([result EXCEPT !.whereClauses = Append(@, <<prop[1], undefined>>),
                              !.queryValues = Append(@, prop[2]),
                              !.placeholderCount = @ + 1,
                              !.fieldPlaceholders =
                                  Append(@, <<prop[1], result.placeholderCount + 1>>)])

RECURSIVE whereReduce(_, _)

\* names.reduce(callback, result) over the properties props.
whereReduce(props, result) ==
    IF props = <<>> THEN Built(result)
    ELSE IF whereStep(result, Head(props)).kind = "throw"
    THEN whereStep(result, Head(props))
    ELSE whereReduce(Tail(props), whereStep(result, Head(props)).builder)

\* The first statement of getGuidelines:
\* getOwnPropertyNames(sqlFilter ?? {}).reduce(callback, {whereClauses: [],
\* queryValues: [], placeholderCount: 0}); getOwnPropertyNames is named bare,
\* not as Object.getOwnPropertyNames.
compileWhere(sqlFilter) ==
    IF ~IsBound("getOwnPropertyNames")
    THEN BuildThrows("ReferenceError", "getOwnPropertyNames is not defined")
    ELSE whereReduce(IF IsNullish(sqlFilter) THEN <<>> ELSE sqlFilter.props,
                     EmptyBuilder)

\* The callback of the second reduction for one property of order: a
\* property whose value is null adds nothing, a property of another value
\* adds the sort clause "field direction".
orderStep(result, prop) ==
    IF validFieldName(prop[1]).kind = "throw" THEN validFieldName(prop[1])
    ELSE IF prop[2] = null THEN Built(result)
    ELSE Built([result EXCEPT !.orderClauses = Append(@, <<prop[1], prop[2]>>)])

RECURSIVE orderReduce(_, _)

orderReduce(props, result) ==
    IF props = <<>> THEN Built(result)
    ELSE IF orderStep(result, Head(props)).kind = "throw"
    THEN orderStep(result, Head(props))
    ELSE orderReduce(Tail(props), orderStep(result, Head(props)).builder)

\* The second statement of getGuidelines:
\* Object.getOwnPropertyNames(order ?? {}).reduce(callback, queryBuilder).
\* The function has no parameter order and the module binds no such name;
\* order is the object the name would have to be bound to.
compileOrder(order, result) ==
    IF ~IsBound("order")
    THEN BuildThrows("ReferenceError", "order is not defined")
    ELSE orderReduce(IF IsNullish(order) THEN <<>> ELSE order.props, result)

\* "style"
StyleField == <<115, 116, 121, 108, 101>>

\* The ORDER BY list of the query: "ORDER BY style, form, technique, level,
\* name" and then the sort clauses of the builder.
OrderByList(builder) ==
    <<<<StyleField, undefined>>, <<<<102, 111, 114, 109>>, undefined>>,
      <<<<116, 101, 99, 104, 110, 105, 113, 117, 101>>, undefined>>,
      <<<<108, 101, 118, 101, 108>>, undefined>>,
      <<<<110, 97, 109, 101>>, undefined>>>> \o builder.orderClauses

\* The rows the store answers a query with.
StoreRows == {<<>>, <<CreateAnAnimal>>, <<CreateAnAnimal, DestroyAKind>>}

\* getGuidelines once its sqlFilter is reduced to built: the second
\* reduction reads the name order; then the query is sent to the pool, which
\* answers with rows or fails.
getGuidelinesOfStoreWith(filter, sqlFilter, built) ==
    IF built.kind = "throw"
    THEN call' = Rejected("use server getGuidelines", <<filter, sqlFilter>>,
                          built.error, built.message, NoSearch)
    ELSE IF ~IsBound("order")
    THEN call' = Rejected("use server getGuidelines", <<filter, sqlFilter>>,
                          "ReferenceError", "order is not defined", NoSearch)
    ELSE \/ \E rows \in StoreRows :
                call' = Resolved("use server getGuidelines", <<filter, sqlFilter>>,
                                 rows, NoSearch)
         \/ call' = Rejected("use server getGuidelines", <<filter, sqlFilter>>,
                             "Error", "Could not access the guidelines data",
                             NoSearch)

\* The store-backed getGuidelines(filter, sqlFilter): one call.
getGuidelinesOfStore(filter, sqlFilter) ==
    /\ call.op = ""
    /\ getGuidelinesOfStoreWith(filter, sqlFilter, compileWhere(sqlFilter))
    /\ UNCHANGED <<guidelines, log, group, jobs>>

\* The names of the fields of a guideline key: "form", "technique", "level"
\* and "name".
FormField == <<102, 111, 114, 109>>
TechniqueField == <<116, 101, 99, 104, 110, 105, 113, 117, 101>>
LevelField == <<108, 101, 118, 101, 108>>
NameField == <<110, 97, 109, 101>>

\* No property, or the property fieldName with one of the values.
OptionalProp(fieldName, values) ==
    {<<>>} \cup {<<<<fieldName, value>>>> : value \in values}

\* A name that is no field of the guidelines: "1=1".
NoFieldName == <<49, 61, 49>>

\* The sqlFilter arguments: undefined (the default) and the objects that
\* give each field of the key a literal, null, or nothing, with or without a
\* property that is no field.
SqlFilters ==
    {undefined} \cup
    {ObjectOf(form \o nofield \o technique \o level \o name) :
        form \in OptionalProp(FormField, {null, Str(AnimalStr)}),
        nofield \in OptionalProp(NoFieldName, {Num(1)}),
        technique \in OptionalProp(TechniqueField, {null, Str(CreoStr)}),
        level \in OptionalProp(LevelField, {null, Num(5)}),
        name \in OptionalProp(NameField, {null, Str(CureXStr)})}

\* "ASC" and "DESC"
AscStr == <<65, 83, 67>>
DescStr == <<68, 69, 83, 67>>

\* The objects order would be bound to: each gives the level and the name a
\* direction, null, or nothing, in either order of the two.
Orders ==
    {undefined} \cup
    {ObjectOf(level \o name) :
        level \in OptionalProp(LevelField, {null, Str(AscStr), Str(DescStr)}),
        name \in OptionalProp(NameField, {null, Str(DescStr)})} \cup
    {ObjectOf(name \o level) :
        level \in OptionalProp(LevelField, {null, Str(AscStr), Str(DescStr)}),
        name \in OptionalProp(NameField, {null, Str(DescStr)})}

\* The booleans true and false.
Bool(truth) == [t |-> "boolean", n |-> IF truth THEN 1 ELSE 0, s |-> <<>>]

\* How the query executor (pool.query) answers a statement: its promise is
\* rejected (QueryFailure), or fulfilled with a result whose rowCount is the
\* number of rows the statement wrote.
QueryFailure == undefined
QueryResults == {QueryFailure, Num(0), Num(1)}

\* The level bound to the statement that writes a guideline:
\* guideline.level == null ? 0 : guideline.level.
levelParameter(guideline) ==
    IF IsNullish(guideline.level) THEN Num(0) ELSE guideline.level

\* The level of the guideline getGuidelines makes of a row:
\* row.level === 0 ? null : row.level.
rowLevel(level) == IF StrictEq(level, Num(0)) THEN null ELSE level

\* The values bound to the INSERT statement of addGuideline, without the
\* description.
insertValues(guideline) ==
    <<guideline.form, guideline.technique, levelParameter(guideline), guideline.name>>

\* The store-backed addGuideline(guideline); result is the answer of the
\* query executor, kept as the last of args.
addGuidelineOfStore(guideline, result) ==
    /\ call.op = ""
    /\ call' = IF result = QueryFailure
               THEN Rejected("use server addGuideline", <<guideline, result>>, "Error",
                             "Could not insert the guideline", NoSearch)
               ELSE Resolved("use server addGuideline", <<guideline, result>>,
                             Bool(result.n > 0), NoSearch)
    /\ UNCHANGED <<guidelines, log, group, jobs>>

\* The store-backed updateGuideline(guidelineKey, guideline); result is the
\* answer of the query executor, kept as the last of args.
updateGuidelineOfStore(guidelineKey, guideline, result) ==
    /\ call.op = ""
    /\ call' = IF result = QueryFailure
               THEN Rejected("use server updateGuideline",
                             <<guidelineKey, guideline, result>>, "NotFoundException",
                             "The guideline does not exist", NoSearch)
               ELSE Resolved("use server updateGuideline",
                             <<guidelineKey, guideline, result>>,
                             Bool(result.n > 0), NoSearch)
    /\ UNCHANGED <<guidelines, log, group, jobs>>

\* A guideline of level 0.
ZeroLevelCure == Guideline(Str(AnimalStr), Str(CreoStr), Num(0), Str(CureXStr))

\* The guidelines written to the store.
StoreGuidelines == {CreateAnAnimal, CureX, GenericZ, ZeroLevelCure}

StoreInit ==
    /\ group = NoGroup
    /\ jobs = NoJobs
    /\ guidelines = <<CreateAnAnimal, DestroyAKind>>
    /\ call = NoCall
    /\ log = Untracked

StoreNext ==
    \/ \E filter \in Filters, sqlFilter \in SqlFilters :
           getGuidelinesOfStore(filter, sqlFilter)
    \/ \E guideline \in StoreGuidelines, result \in QueryResults :
           addGuidelineOfStore(guideline, result)
    \/ \E guidelineKey \in UpdateKeys, guideline \in StoreGuidelines,
          result \in QueryResults :
           updateGuidelineOfStore(guidelineKey, guideline, result)

StoreSpec == StoreInit /\ [][StoreNext]_vars

-----------------------------------------------------------------------------
(* GuidelineGroupModel: group is the group under construction and use;     *)
(* call is the last call, its before the members when the call was made.   *)

\* new GuidelineModel(name, technique, form, level)
GuidelineModel(name, technique, form, level) ==
    [t |-> "GuidelineModel", form |-> form, technique |-> technique, level |-> level,
     name |-> name]

\* member instanceof GuidelineGroupModel || member instanceof GuidelineModel
IsModelInstance(member) == member.t \in {"GuidelineGroupModel", "GuidelineModel"}

\* The arrow function cursor => (cursor.name === member.name): a function
\* object made where the expression is evaluated.
NameMatcher(member) == [t |-> "function", n |-> 0, s |-> <<>>]

\* array.indexOf(searchElement): the first index whose element is strictly
\* equal to searchElement, or -1.
indexOf(array, searchElement) ==
    IF \E k \in 1..Len(array) : StrictEq(array[k], searchElement)
    THEN Num((CHOOSE k \in 1..Len(array) :
                 /\ StrictEq(array[k], searchElement)
                 /\ \A j \in 1..(k - 1) : ~StrictEq(array[j], searchElement)) - 1)
    ELSE Num(-1)

\* validMember(member, index) of a group of the members.
validMember(members, member, index) ==
    IF IsModelInstance(member)
    THEN \/ JsLess(indexOf(members, NameMatcher(member)), Num(0))
         \/ StrictEq(indexOf(members, NameMatcher(member)), index)
    ELSE FALSE

\* How addMember ends: it returns, value the members of the group then, or
\* throws.
MemberAdded(members) ==
    [value |-> members, error |-> "", message |-> "", kind |-> "return"]

MemberThrows(error, message) ==
    [value |-> <<>>, error |-> error, message |-> message, kind |-> "throw"]

\* addMember(member) of a group of the members.
addMember(members, member) ==
    IF IsModelInstance(member)
    THEN IF validMember(members, member, Num(-1))
         THEN MemberThrows("RangeError", "Member name already used")
         ELSE MemberAdded(Append(members, member))
    ELSE MemberThrows("TypeError", "Invalid member")

RECURSIVE forEachAddMember(_, _)

\* members.forEach(member => this.addMember(member)) of the constructor,
\* added the members of the group so far.
forEachAddMember(added, members) ==
    IF members = <<>> THEN MemberAdded(added)
    ELSE IF addMember(added, Head(members)).kind = "throw"
    THEN addMember(added, Head(members))
    ELSE forEachAddMember(addMember(added, Head(members)).value, Tail(members))

\* The call record of a call of the group that ended as result.
GroupCall(op, args, result, before) ==
    [op |-> op, args |-> args,
     outcome |-> IF result.kind = "throw" THEN "threw" ELSE "returned",
     value |-> undefined, error |-> result.error, message |-> result.message,
     before |-> before, search |-> NoSearch]

\* new GuidelineGroupModel(name, members): no group is made when the
\* constructor throws.
NewGuidelineGroupModel(name, members) ==
    /\ group = NoGroup
    /\ call' = GroupCall("new GuidelineGroupModel", <<name, members>>,
                         forEachAddMember(<<>>, members), <<>>)
    /\ group' = IF forEachAddMember(<<>>, members).kind = "throw" THEN NoGroup
                ELSE [t |-> "GuidelineGroupModel", name |-> name,
                      members |-> forEachAddMember(<<>>, members).value]
    /\ UNCHANGED <<guidelines, log, jobs>>

\* group.addMember(member)
CallAddMember(member) ==
    /\ group # NoGroup
    /\ call' = GroupCall("addMember", <<member>>, addMember(group.members, member),
                         group.members)
    /\ group' = IF addMember(group.members, member).kind = "throw" THEN group
                ELSE [group EXCEPT !.members = addMember(group.members, member).value]
    /\ UNCHANGED <<guidelines, log, jobs>>

\* "Animal guidelines"
AnimalGuidelinesStr ==
    <<65, 110, 105, 109, 97, 108, 32, 103, 117, 105, 100, 101, 108, 105, 110, 101, 115>>

\* The values given as members: instances of GuidelineModel, instances of
\* GuidelineGroupModel (one with the name of a guideline), and values that
\* are neither (a plain guideline object, a name, null, undefined).
GroupMembers ==
    {GuidelineModel(Str(CureXStr), Str(CreoStr), Str(AnimalStr), Num(5)),
     GuidelineModel(Str(GenericZStr), Str(CreoStr), Str(AnimalStr), null),
     GuidelineModel(Str(CureXStr), Str(CreoStr), Str(CorpusStr), Num(5)),
     [t |-> "GuidelineGroupModel", name |-> Str(AnimalGuidelinesStr), members |-> <<>>],
     [t |-> "GuidelineGroupModel", name |-> Str(CureXStr), members |-> <<>>],
     CureX, Str(CureXStr), null, undefined}

\* The initial members a group is constructed with.
InitialMembers ==
    UNION {[1..n -> GroupMembers] : n \in 0..MaxMembers}

GroupInit ==
    /\ guidelines = <<>>
    /\ call = NoCall
    /\ log = Untracked
    /\ group = NoGroup
    /\ jobs = NoJobs

GroupNext ==
    \/ \E name \in {Str(AnimalGuidelinesStr), Str(AnimalStr)},
          members \in InitialMembers :
           NewGuidelineGroupModel(name, members)
    \/ \E member \in GroupMembers : CallAddMember(member)

GroupSpec == GroupInit /\ [][GroupNext]_vars

-----------------------------------------------------------------------------
(* The in-memory operations called without waiting for one another.  A     *)
(* call is invoked while no body is executing, executes its search and     *)
(* then its mutation, and its caller continues later.  The thread is held  *)
(* (jobs.running) from the invocation to the end of the body: the bodies   *)
(* have no await between their search and their splice.                    *)

\* The catalog operation op is invoked with args: the thread enters its
\* body.
invoke(op, args) ==
    /\ jobs.running = 0
    /\ Len(jobs.calls) < MaxCalls
    /\ jobs' = [running |-> Len(jobs.calls) + 1,
                calls |-> Append(jobs.calls,
                                 [op |-> op, args |-> args, value |-> undefined,
                                  search |-> NoSearch, pc |-> "called", seen |-> <<>>])]
    /\ UNCHANGED <<guidelines, call, log, group>>

\* The search the body of op makes: binarySearch, or findIndex in a
\* removeGuideline by name, or none in a removeGuideline of a value that is
\* neither a string nor an object.
searchFor(op, args) ==
    CASE op = "addGuideline" ->
             binarySearch(guidelines, args[1], Num(0), Num(Len(guidelines)),
                          "compareGuidelineKeys")
      [] op = "updateGuideline" ->
             binarySearch(guidelines, args[2], Num(0), undefined, "compareGuidelineKeys")
      [] op = "removeGuideline" /\ TypeOf(args[1]) = "object" ->
             binarySearch(guidelines, args[1], Num(0), Num(Len(guidelines)),
                          "compareGuidelineKeys")
      [] OTHER -> NoSearch

\* The index of the call once its search has ended as found.
indexFor(op, args, found) ==
    CASE op = "removeGuideline" /\ TypeOf(args[1]) = "string" ->
             FindIndexByName(guidelines, args[1])
      [] op = "removeGuideline" /\ TypeOf(args[1]) # "object" -> Num(-1)
      [] OTHER -> found.value

\* The call c as its search leaves it.
searched(c, found) ==
    [jobs.calls[c] EXCEPT !.value = indexFor(jobs.calls[c].op, jobs.calls[c].args, found),
                          !.search = found, !.pc = "found", !.seen = guidelines]

\* A search of the call c after which the thread is released, as an await
\* of the search would.
searchThenAwait(c) ==
    /\ jobs.running = c
    /\ jobs.calls[c].pc = "called"
    /\ jobs' = [running |-> 0,
                calls |-> [jobs.calls EXCEPT
                              ![c] = searched(c, searchFor(jobs.calls[c].op,
                                                           jobs.calls[c].args))]]
    /\ UNCHANGED <<guidelines, call, log, group>>

\* The search of the call c: the body goes on to the mutation.
searchOf(c) ==
    /\ jobs.running = c
    /\ jobs.calls[c].pc = "called"
    /\ jobs' = [jobs EXCEPT
                   !.calls[c] = searched(c, searchFor(jobs.calls[c].op,
                                                      jobs.calls[c].args))]
    /\ UNCHANGED <<guidelines, call, log, group>>

\* What the body of the call does with the index and the search result it
\* has.
mutationFor(op, args, index, found) ==
    CASE op = "addGuideline" -> addGuidelineAt(args[1], found)
      [] op = "updateGuideline" -> updateGuidelineAt(args[1], args[2], found)
      [] op = "removeGuideline" /\ TypeOf(args[1]) = "string" ->
             removeGuidelineAt(args[1], index, NoSearch)
      [] op = "removeGuideline" /\ TypeOf(args[1]) = "object" ->
             removeGuidelineByKey(args[1], found)
      [] OTHER ->
             /\ call' = Resolved("removeGuideline", args, undefined, NoSearch)
             /\ UNCHANGED guidelines

\* The rest of the body of the call c: the mutation and the return, which
\* releases the thread; a search that never ends never releases it.
mutationOf(c) ==
    /\ jobs.running = c
    /\ jobs.calls[c].pc = "found"
    /\ mutationFor(jobs.calls[c].op, jobs.calls[c].args, jobs.calls[c].value,
                   jobs.calls[c].search)
    /\ jobs' = IF jobs.calls[c].search.kind = "diverges"
               THEN [jobs EXCEPT !.calls[c].pc = "hung"]
               ELSE [running |-> 0, calls |-> [jobs.calls EXCEPT ![c].pc = "settled"]]
    /\ log' = Untracked
    /\ UNCHANGED group

\* The caller of the call c continues with the settled promise.
observe(c) ==
    /\ jobs.running = 0
    /\ jobs.calls[c].pc = "settled"
    /\ jobs' = [jobs EXCEPT !.calls[c].pc = "observed"]
    /\ UNCHANGED <<guidelines, call, log, group>>

\* The guidelines added and the arguments of removeGuideline in the calls.
ConcurrentGuidelines == {CureX, GenericZ, CorpusCure}
ConcurrentRemovals == {Str(CreateAnAnimalStr), Str(CureXStr), DestroyAKind, undefined}

ConcurrentInit ==
    /\ guidelines = <<CreateAnAnimal, DestroyAKind>>
    /\ call = NoCall
    /\ log = Untracked
    /\ group = NoGroup
    /\ jobs = NoJobs

ConcurrentNext ==
    \/ \E guideline \in ConcurrentGuidelines : invoke("addGuideline", <<guideline>>)
    \/ \E guidelineKey \in UpdateKeys, guideline \in ConcurrentGuidelines :
           invoke("updateGuideline", <<guidelineKey, guideline>>)
    \/ \E guidelineKey \in ConcurrentRemovals : invoke("removeGuideline", <<guidelineKey>>)
    \/ \E c \in 1..Len(jobs.calls) : searchOf(c)
    \/ \E c \in 1..Len(jobs.calls) : mutationOf(c)
    \/ \E c \in 1..Len(jobs.calls) : observe(c)

ConcurrentSpec == ConcurrentInit /\ [][ConcurrentNext]_vars

-----------------------------------------------------------------------------
(* Notions the properties are stated with.                                 *)

\* The keys of a and b are identical: the same form, technique, level and name.
SameKey(a, b) ==
    /\ a.form = b.form
    /\ a.technique = b.technique
    /\ a.level = b.level
    /\ a.name = b.name

\* A well-formed key: form, technique and name are strings, level is the
\* sentinel null or a number.
WellFormed(guideline) ==
    /\ guideline.t = "object"
    /\ guideline.form.t = "string"
    /\ guideline.technique.t = "string"
    /\ guideline.name.t = "string"
    /\ guideline.level.t \in {"null", "number"}

\* The collection is sorted ascending by compareGuideline: no entry compares
\* greater than, or incomparable with, an entry after it.
Sorted(collection) ==
    \A j \in 1..Len(collection) : \A k \in (j + 1)..Len(collection) :
        compareGuideline(collection[j], collection[k]) \in {Num(-1), Num(0)}

\* The four field comparisons of a and b, in the order of precedence.
FieldOutcomes(a, b) ==
    <<artComparison(a.form, b.form), artComparison(a.technique, b.technique),
      compareLevel(a.level, b.level), compareName(a.name, b.name)>>

\* The first of the outcomes that is not equal (0), and equal when all are.
FirstDeciding(outcomes) ==
    IF \A k \in 1..Len(outcomes) : outcomes[k] = Num(0) THEN Num(0)
    ELSE outcomes[CHOOSE k \in 1..Len(outcomes) :
                      /\ outcomes[k] # Num(0)
                      /\ \A j \in 1..(k - 1) : outcomes[j] = Num(0)]

\* The position of the first entry of the collection with the key of
\* guideline, 0 when there is none.
PositionOf(collection, guideline) ==
    IF \E k \in 1..Len(collection) : SameKey(collection[k], guideline)
    THEN CHOOSE k \in 1..Len(collection) :
             /\ SameKey(collection[k], guideline)
             /\ \A j \in 1..(k - 1) : ~SameKey(collection[j], guideline)
    ELSE 0

\* The collection with guideline inserted at index j.
InsertedAt(collection, guideline, j) ==
    SubSeq(collection, 1, j) \o <<guideline>> \o SubSeq(collection, j + 1, Len(collection))

\* The keys of the sequence are pairwise different.
PairwiseDistinct(collection) ==
    \A j \in 1..Len(collection) : \A k \in (j + 1)..Len(collection) :
        ~SameKey(collection[j], collection[k])

-----------------------------------------------------------------------------
(* The properties.                                                         *)

\* C1: starting from the initial catalog, after every addGuideline call of a
\* sequence of addGuideline calls with pairwise distinct keys (distinct from
\* the keys of the initial entries too), guidelines is sorted ascending by
\* compareGuideline.
C1_SortedAfterDistinctAdds ==
    (log.tracked /\ PairwiseDistinct(<<CreateAnAnimal, DestroyAKind>> \o log.adds))
        => Sorted(guidelines)

\* C2: addGuideline with a guideline whose key compares equal to the key of
\* an entry of the catalog is rejected with the duplicate-key error, and the
\* catalog is as it was before the call.
C2_DuplicateAddRejected ==
    (/\ call.op = "addGuideline"
     /\ \E k \in 1..Len(call.before) :
            compareGuideline(call.args[1], call.before[k]) = Num(0))
        => /\ call.outcome = "rejected"
           /\ call.error = "RangeError"
           /\ call.message = "The guideline already exists"
           /\ guidelines = call.before

\* C3: in every state of the catalog reached by addGuideline, updateGuideline
\* and removeGuideline calls, no two entries have the same form, technique,
\* level and name.
C3_NoTwoEntriesWithOneKey == PairwiseDistinct(guidelines)

\* The call is a search of the whole collection for a well-formed key, the
\* collection being sorted and its entries well formed.
WholeSortedSearch ==
    /\ call.op = "binarySearch"
    /\ call.args[2] = Num(0)
    /\ call.args[3] \in {undefined, Num(Len(guidelines))}
    /\ WellFormed(call.args[1])
    /\ \A k \in 1..Len(guidelines) : WellFormed(guidelines[k])
    /\ Sorted(guidelines)

\* C4: for every sorted catalog and every key present in it, binarySearch
\* over the whole catalog returns an index i >= 0 such that the entry at i
\* compares equal to the key.
C4_PresentKeyFound ==
    (/\ WholeSortedSearch
     /\ \E k \in 1..Len(guidelines) : SameKey(guidelines[k], call.args[1]))
        => /\ call.search.kind = "return"
           /\ JsGreaterEq(call.search.value, Num(0))
           /\ Compare(call.args[4], call.args[1],
                      ElementAt(guidelines, call.search.value)) = Num(0)

\* C5: for every sorted catalog, the empty one too, and every key absent from
\* it, binarySearch returns -(j) - 1, j being an index at which inserting the
\* key keeps the catalog sorted.
C5_AbsentKeyInsertionPoint ==
    (/\ WholeSortedSearch
     /\ \A k \in 1..Len(guidelines) :
            compareGuideline(call.args[1], guidelines[k]) # Num(0))
        => /\ call.search.kind = "return"
           /\ \E j \in 0..Len(guidelines) :
                  /\ call.search.value = Num(-j - 1)
                  /\ Sorted(InsertedAt(guidelines, call.args[1], j))

\* C6: every call of addGuideline, updateGuideline, removeGuideline and
\* getGuidelines ends, and the binarySearch it makes ends after a number of
\* comparisons that is at most the size of the search window (the length of
\* the catalog).
C6_EveryCallEnds ==
    /\ call.outcome # "diverges"
    /\ call.search.kind # "diverges"
    /\ call.search.probes <= Len(call.before)

\* The order of levels: the sentinel null is less than every number, two
\* sentinels are equal, numbers are in ascending order.
LevelOrder(a, b) ==
    CASE a = null /\ b = null -> Num(0)
      [] a = null -> Num(-1)
      [] b = null -> Num(1)
      [] a.n < b.n -> Num(-1)
      [] a.n > b.n -> Num(1)
      [] OTHER -> Num(0)

\* C7: compareLevel orders levels so that null compares less than every
\* number, two nulls compare equal, and two numbers compare in ascending
\* order.
C7_LevelOrder ==
    (/\ call.op = "compareLevel"
     /\ call.args[1] \in Levels
     /\ call.args[2] \in Levels)
        => call.value = LevelOrder(call.args[1], call.args[2])

\* C8: for well-formed keys a and b, compareGuideline(a, b) is the outcome of
\* the first field comparison, in the precedence form, technique, level,
\* name, that is not equal, and it is equal only when all four field
\* comparisons are equal.
C8_FirstDecidingField ==
    (/\ call.op = "compareGuideline"
     /\ call.args[1].t = "object" /\ WellFormed(call.args[1])
     /\ call.args[2].t = "object" /\ WellFormed(call.args[2]))
        => /\ call.value = FirstDeciding(FieldOutcomes(call.args[1], call.args[2]))
           /\ call.value = Num(0) <=>
                  \A k \in 1..4 :
                      FieldOutcomes(call.args[1], call.args[2])[k] = Num(0)

\* compareGuideline was called with two well-formed keys of one form and one
\* technique whose levels decide the order against their names.
C8_Witness ==
    /\ call.op = "compareGuideline"
    /\ call.args[1].t = "object" /\ WellFormed(call.args[1])
    /\ call.args[2].t = "object" /\ WellFormed(call.args[2])
    /\ LET outcomes == FieldOutcomes(call.args[1], call.args[2])
       IN  /\ outcomes[1] = Num(0)
           /\ outcomes[2] = Num(0)
           /\ outcomes[3] = Num(1)
           /\ outcomes[4] = Num(-1)
           /\ call.value = Num(1)

\* C9: after addGuideline of (Animal, Creo, 5, Cure X), (Animal, Creo, 2,
\* Preserve Y) and (Animal, Creo, null, Generic Z), in this order, the three
\* entries are in the catalog in the order Generic Z, Preserve Y, Cure X.
C9_ScenarioOrder ==
    (log.tracked /\ log.adds = <<CureX, PreserveY, GenericZ>>)
        => /\ 0 < PositionOf(guidelines, GenericZ)
           /\ PositionOf(guidelines, GenericZ) < PositionOf(guidelines, PreserveY)
           /\ PositionOf(guidelines, PreserveY) < PositionOf(guidelines, CureX)

\* The comparator's answer for the element binarySearch probes.
ProbeAnswer ==
    Compare(call.args[4], call.args[1],
            ElementAt(guidelines, FloorHalf(Plus(call.args[2], call.args[3]))))

\* C10: an incomparable outcome is never turned into equal.  For a key and
\* an entry, compareGuideline returns undefined whenever the field
\* comparison that decides the chain (every field before it a tie) yields
\* undefined, and it never returns 0 when one of the four field comparisons
\* yields undefined; and a binarySearch whose comparator answers undefined
\* for the probed element throws TypeError: it returns neither an index nor
\* an insertion point.
C10_IncomparableNeverEqual ==
    call.op = "binarySearch"
        => /\ \A k \in 1..Len(guidelines) :
                  LET outcomes == FieldOutcomes(call.args[1], guidelines[k])
                      result == compareGuideline(call.args[1], guidelines[k])
                  IN  /\ FirstDeciding(outcomes) = undefined => result = undefined
                      /\ (\E f \in 1..4 : outcomes[f] = undefined) => result # Num(0)
           /\ (call.search.probes >= 1 /\ ProbeAnswer = undefined)
                  => /\ call.search.kind = "throw"
                     /\ call.search.error = "TypeError"
                     /\ call.outcome = "threw"

\* binarySearch probed an entry whose level the comparator could not order
\* against the level of the key, and threw TypeError.
C10_Witness ==
    /\ call.op = "binarySearch"
    /\ call.search.probes >= 1
    /\ ProbeAnswer = undefined
    /\ \E k \in 1..Len(guidelines) :
           /\ FieldOutcomes(call.args[1], guidelines[k])[3] = undefined
           /\ compareGuideline(call.args[1], guidelines[k]) = undefined
    /\ call.search.kind = "throw"
    /\ call.search.error = "TypeError"

\* The field comparisons of two partial keys: a field that either key does
\* not supply (undefined) is a tie.
KeyFieldOutcomes(a, b) ==
    <<IF a.form = undefined \/ b.form = undefined THEN Num(0)
      ELSE FieldOutcomes(a, b)[1],
      IF a.technique = undefined \/ b.technique = undefined THEN Num(0)
      ELSE FieldOutcomes(a, b)[2],
      IF a.level = undefined \/ b.level = undefined THEN Num(0)
      ELSE FieldOutcomes(a, b)[3],
      IF a.name = undefined \/ b.name = undefined THEN Num(0)
      ELSE FieldOutcomes(a, b)[4]>>

\* The two keys supply no field in common.
NoCommonField(a, b) ==
    /\ a.form = undefined \/ b.form = undefined
    /\ a.technique = undefined \/ b.technique = undefined
    /\ a.level = undefined \/ b.level = undefined
    /\ a.name = undefined \/ b.name = undefined

\* C11: compareGuidelineKeys(a, b) of two keys counts a field that is
\* undefined in a or in b as equal, compares every other field as
\* compareGuideline does, and returns the outcome of the first field, in the
\* precedence form, technique, level, name, that is not equal; two keys that
\* supply no field in common compare equal.
C11_AbsentFieldIsEqual ==
    (/\ call.op = "compareGuidelineKeys"
     /\ call.args[1].t = "object"
     /\ call.args[2].t = "object")
        => /\ call.value = FirstDeciding(KeyFieldOutcomes(call.args[1], call.args[2]))
           /\ NoCommonField(call.args[1], call.args[2]) => call.value = Num(0)
           /\ (/\ WellFormed(call.args[1]) /\ WellFormed(call.args[2]))
                  => call.value = compareGuideline(call.args[1], call.args[2])

\* compareGuidelineKeys was called with a key that supplies its form and
\* level and a key that supplies all four fields, of the same form, its
\* technique apart and its level greater: the level decided.
C11_Witness ==
    /\ call.op = "compareGuidelineKeys"
    /\ call.args[1].t = "object"
    /\ call.args[2].t = "object"
    /\ call.args[1].technique = undefined
    /\ call.args[1].name = undefined
    /\ call.args[2].technique # undefined
    /\ call.args[2].name # undefined
    /\ KeyFieldOutcomes(call.args[1], call.args[2])[1] = Num(0)
    /\ FieldOutcomes(call.args[1], call.args[2])[2] = undefined
    /\ KeyFieldOutcomes(call.args[1], call.args[2])[3] = Num(-1)
    /\ call.value = Num(-1)

\* The search removeGuideline makes for the key of the last call, on the
\* catalog as it is now.
SearchAgain ==
    binarySearch(guidelines, call.args[1], Num(0), Num(Len(guidelines)),
                 "compareGuidelineKeys")

\* C12: after removeGuideline(k) has resolved for a key k (an object), the
\* search for k in the catalog returns a negative value (not found), and a
\* second removeGuideline(k) resolves with undefined: its search returns, and
\* the entry it removes, if any, is undefined.
C12_RemovedKeyNotFound ==
    (/\ call.op = "removeGuideline"
     /\ call.args[1].t = "object"
     /\ call.outcome = "resolved")
        => /\ SearchAgain.kind = "return"
           /\ JsLess(SearchAgain.value, Num(0))
           /\ \/ ~JsGreaterEq(SearchAgain.value, Num(0))
              \/ ElementAt(Spliced(guidelines, SearchAgain.value, 1), Num(0)) = undefined

\* The collection without its entry at position k.
WithoutPosition(collection, k) ==
    SubSeq(collection, 1, k - 1) \o SubSeq(collection, k + 1, Len(collection))

\* Every entry of the collection is a well-formed guideline.
AllWellFormed(collection) ==
    \A k \in 1..Len(collection) : WellFormed(collection[k])

\* C13: removeGuideline(k), k a well-formed key and the catalog holding
\* well-formed entries: when an entry of the catalog has the key k, the call
\* resolves with that entry and the catalog is as before without it; when no
\* entry has the key k, the call resolves with undefined and the catalog is
\* unchanged.
C13_RemoveByKey ==
    (/\ call.op = "removeGuideline"
     /\ call.args[1].t = "object"
     /\ WellFormed(call.args[1])
     /\ AllWellFormed(call.before))
        => IF \E k \in 1..Len(call.before) : SameKey(call.before[k], call.args[1])
           THEN /\ call.outcome = "resolved"
                /\ \E k \in 1..Len(call.before) :
                       /\ SameKey(call.before[k], call.args[1])
                       /\ call.value = call.before[k]
                       /\ guidelines = WithoutPosition(call.before, k)
           ELSE /\ call.outcome = "resolved"
                /\ call.value = undefined
                /\ guidelines = call.before

\* The positions of the entries of the collection with the name.
PositionsOfName(collection, name) ==
    {k \in 1..Len(collection) : collection[k].name = name}

\* C14: removeGuideline(name), name a string: when entries of the catalog
\* have the name, the call resolves with the first of them in catalog order
\* and the catalog is as before without it, every other entry kept in its
\* relative order; when no entry has the name, the call resolves with
\* undefined and the catalog is unchanged.
C14_RemoveByName ==
    (/\ call.op = "removeGuideline"
     /\ call.args[1].t = "string")
        => /\ call.outcome = "resolved"
           /\ IF PositionsOfName(call.before, call.args[1]) # {}
              THEN \E k \in PositionsOfName(call.before, call.args[1]) :
                       /\ \A j \in PositionsOfName(call.before, call.args[1]) : k <= j
                       /\ call.value = call.before[k]
                       /\ guidelines = WithoutPosition(call.before, k)
              ELSE /\ call.value = undefined
                   /\ guidelines = call.before

\* removeGuideline was called with a name that two entries of the catalog
\* had, the first of them after an entry of another name: the first was
\* removed and the second is still in the catalog.
C14_Witness ==
    /\ call.op = "removeGuideline"
    /\ call.args[1].t = "string"
    /\ Cardinality(PositionsOfName(call.before, call.args[1])) = 2
    /\ 1 \notin PositionsOfName(call.before, call.args[1])
    /\ Cardinality(PositionsOfName(guidelines, call.args[1])) = 1
    /\ Len(guidelines) = Len(call.before) - 1
    /\ call.value.name = call.args[1]

\* C15: updateGuideline(guidelineKey, guideline), both well formed and the
\* catalog holding well-formed entries: when an entry of the catalog has
\* exactly the key guidelineKey, the call resolves with that entry and the
\* catalog is as before with guideline in its place; when no entry has the
\* key, the call is rejected with NotFoundException and the catalog is
\* unchanged.
C15_UpdateByKey ==
    (/\ call.op = "updateGuideline"
     /\ WellFormed(call.args[1])
     /\ WellFormed(call.args[2])
     /\ AllWellFormed(call.before))
        => IF \E k \in 1..Len(call.before) : SameKey(call.before[k], call.args[1])
           THEN /\ call.outcome = "resolved"
                /\ \E k \in 1..Len(call.before) :
                       /\ SameKey(call.before[k], call.args[1])
                       /\ call.value = call.before[k]
                       /\ guidelines = [call.before EXCEPT ![k] = call.args[2]]
           ELSE /\ call.outcome = "rejected"
                /\ call.error = "NotFoundException"
                /\ guidelines = call.before

\* C16: addGuideline(g), g well formed, on a catalog (the empty one too) of
\* well-formed entries none of which has the key of g: the call resolves
\* with the key of g (its form, technique, level and name), and the catalog
\* is the catalog before with g inserted at some position, the entries before
\* in their order, its length one more.
C16_AddOfNewKeySucceeds ==
    (/\ call.op = "addGuideline"
     /\ WellFormed(call.args[1])
     /\ AllWellFormed(call.before)
     /\ \A k \in 1..Len(call.before) : ~SameKey(call.before[k], call.args[1]))
        => /\ call.outcome = "resolved"
           /\ SameKey(call.value, call.args[1])
           /\ Len(guidelines) = Len(call.before) + 1
           /\ \E j \in 0..Len(call.before) :
                  guidelines = InsertedAt(call.before, call.args[1], j)

\* The positions of the entries of the collection the filter accepts.
AcceptedPositions(filter, collection) ==
    {k \in 1..Len(collection) : Accepts(filter, collection[k])}

\* C17: getGuidelines(filter) resolves with the entries of the catalog the
\* filter accepts, each of them once and in catalog order, and leaves the
\* catalog as it was; with the filter that accepts the form Animal, every
\* entry whose form is Animal is in the result, whatever its technique, level
\* and name.
C17_FilteredInCatalogOrder ==
    call.op = "getGuidelines"
        => /\ call.outcome = "resolved"
           /\ guidelines = call.before
           /\ Len(call.value) = Cardinality(AcceptedPositions(call.args[1], call.before))
           /\ \A j \in 1..Len(call.value) :
                  \E k \in AcceptedPositions(call.args[1], call.before) :
                      /\ call.value[j] = call.before[k]
                      /\ Cardinality({m \in AcceptedPositions(call.args[1], call.before) :
                                         m < k}) = j - 1
           /\ call.args[1] = "form is Animal"
                  => \A k \in 1..Len(call.before) :
                         call.before[k].form = Str(AnimalStr)
                             => \E j \in 1..Len(call.value) : call.value[j] = call.before[k]

\* getGuidelines was called with the filter of the form Animal on a catalog
\* that held an entry of another form between two entries of the form Animal
\* of different levels and names: it resolved with the two, in their order.
C17_Witness ==
    /\ call.op = "getGuidelines"
    /\ call.args[1] = "form is Animal"
    /\ Len(call.before) = 3
    /\ call.before[2].form # Str(AnimalStr)
    /\ call.before[1].level # call.before[3].level
    /\ call.before[1].name # call.before[3].name
    /\ call.value = <<call.before[1], call.before[3]>>

\* The end of the window of the last binarySearch call: the end argument,
\* the length of the collection when it is undefined.
WindowEnd ==
    IF call.args[3] = undefined THEN Len(guidelines) ELSE call.args[3].n

\* The window of the last binarySearch call is invalid: its start or its end
\* is outside [0, length of the collection], or its start is after its end.
InvalidWindow ==
    \/ call.args[2].n < 0
    \/ call.args[2].n > Len(guidelines)
    \/ WindowEnd < 0
    \/ WindowEnd > Len(guidelines)
    \/ call.args[2].n > WindowEnd

\* C18: binarySearch called with an invalid window throws RangeError, and
\* does so before it calls the comparator.
C18_InvalidWindowIsRangeError ==
    (/\ call.op = "binarySearch"
     /\ InvalidWindow)
        => /\ call.search.kind = "throw"
           /\ call.search.error = "RangeError"
           /\ call.search.probes = 0

\* The search of the catalog for the first argument of the last call with a
\* window that starts before the catalog.
OutOfRangeSearch ==
    binarySearch(guidelines, call.args[1], Num(-1), Num(Len(guidelines)),
                 "compareGuidelineKeys")

\* The last call is an addGuideline rejected as the insert of a duplicate.
DuplicateInsert ==
    /\ call.op = "addGuideline"
    /\ call.outcome = "rejected"
    /\ call.message = "The guideline already exists"

\* The last call is an updateGuideline rejected because no entry was found.
NotFoundUpdate ==
    /\ call.op = "updateGuideline"
    /\ call.outcome = "rejected"
    /\ call.message = "The guideline does not exist"

\* C19: the error kind of a duplicate insert (addGuideline), the error kind
\* of a not-found update (updateGuideline: NotFoundException) and the error
\* kind of a search with a window out of range (binarySearch) are pairwise
\* different.
C19_ThreeErrorKinds ==
    /\ OutOfRangeSearch.kind = "throw"
    /\ DuplicateInsert
           => /\ call.error # OutOfRangeSearch.error
              /\ call.error # "NotFoundException"
    /\ NotFoundUpdate
           => /\ call.error = "NotFoundException"
              /\ call.error # OutOfRangeSearch.error

\* The positions of the properties of the object whose value is null, and
\* of those whose value is a literal.
NullProps(object) == {k \in 1..Len(object.props) : object.props[k][2] = null}
LiteralProps(object) == {k \in 1..Len(object.props) : object.props[k][2] # null}

\* C20: the store-backed getGuidelines reduces its sqlFilter, an object of
\* key fields, to a builder with one clause for every field, in the order of
\* the fields, and one bound value for every field whose value is a literal
\* and none for a field whose value is null; the filter of form = Animal and
\* level = null gives two clauses and one bound value.
C20_ClausesAndBoundValues ==
    (/\ call.op = "use server getGuidelines"
     /\ call.args[2].t = "object")
        => /\ compileWhere(call.args[2]).kind = "built"
           /\ Len(compileWhere(call.args[2]).builder.whereClauses)
                  = Len(call.args[2].props)
           /\ \A k \in 1..Len(call.args[2].props) :
                  compileWhere(call.args[2]).builder.whereClauses[k][1]
                      = call.args[2].props[k][1]
           /\ Len(compileWhere(call.args[2]).builder.queryValues)
                  = Cardinality(LiteralProps(call.args[2]))
           /\ compileWhere(call.args[2]).builder.placeholderCount
                  = Cardinality(LiteralProps(call.args[2]))
           /\ ~(call.outcome = "rejected" /\ call.error = "ReferenceError"
                    /\ call.message = "getOwnPropertyNames is not defined")

\* The placeholders written in the clauses of the builder, in the order of
\* the clauses.
ClausePlaceholders(builder) ==
    SelectSeq([k \in 1..Len(builder.whereClauses) |-> builder.whereClauses[k][2]],
              LAMBDA placeholder : placeholder # null)

\* The fields of the clauses of the builder that are written with a
\* placeholder, in the order of the clauses.
PlaceholderFields(builder) ==
    SelectSeq([k \in 1..Len(builder.whereClauses) |->
                   IF builder.whereClauses[k][2] = null THEN <<>>
                   ELSE builder.whereClauses[k][1]],
              LAMBDA fieldName : fieldName # <<>>)

\* The value the object gives the field.
ValueOf(object, fieldName) ==
    object.props[CHOOSE k \in 1..Len(object.props) :
                     object.props[k][1] = fieldName][2]

\* C21: the query the store-backed getGuidelines compiles of a sqlFilter (an
\* object) has the placeholders $1..$n in its clauses, n the number of bound
\* values, each of them once; every field with a literal value owns one
\* placeholder; and the i-th bound value is the value the filter gives the
\* field whose clause is written with $i.
C21_PlaceholdersMatchValues ==
    (/\ call.op = "use server getGuidelines"
     /\ call.args[2].t = "object")
        => /\ compileWhere(call.args[2]).kind = "built"
           /\ ClausePlaceholders(compileWhere(call.args[2]).builder)
                  = [i \in 1..Len(compileWhere(call.args[2]).builder.queryValues)
                         |-> Num(i)]
           /\ Len(PlaceholderFields(compileWhere(call.args[2]).builder))
                  = Cardinality(LiteralProps(call.args[2]))
           /\ \A i \in 1..Len(compileWhere(call.args[2]).builder.queryValues) :
                  compileWhere(call.args[2]).builder.queryValues[i]
                      = ValueOf(call.args[2],
                                PlaceholderFields(compileWhere(call.args[2]).builder)[i])

\* The names of the fields of the guidelines.
FieldNames == {FormField, TechniqueField, LevelField, NameField}

\* The object without its properties that are no field of the guidelines.
WithoutNoFields(object) ==
    ObjectOf(SelectSeq(object.props, LAMBDA prop : prop[1] \in FieldNames))

\* C22: the store-backed getGuidelines drops a property of its sqlFilter
\* whose name is no field of the guidelines: the reduction throws nothing
\* and the builder is the builder of the sqlFilter without the property.
C22_UnknownFieldDropped ==
    (/\ call.op = "use server getGuidelines"
     /\ call.args[2].t = "object"
     /\ \E k \in 1..Len(call.args[2].props) : call.args[2].props[k][1] \notin FieldNames)
        => /\ compileWhere(call.args[2]).kind = "built"
           /\ compileWhere(call.args[2]).builder
                  = compileWhere(WithoutNoFields(call.args[2])).builder
           /\ ~(call.outcome = "rejected" /\ call.error = "ReferenceError")

\* C23: in a store-backed getGuidelines call, the order object compiles to
\* one sort clause, the field and its direction, for every field whose
\* direction is not null, in the order of the fields, and none for a field
\* whose direction is null; the ORDER BY list of the query is the base
\* ordering (style, form, technique, level, name) with the sort clauses after
\* it.
C23_OrderCompiledInOrder ==
    call.op = "use server getGuidelines"
        => \A order \in Orders \ {undefined} :
               /\ compileOrder(order, EmptyBuilder).kind = "built"
               /\ compileOrder(order, EmptyBuilder).builder.orderClauses
                      = SelectSeq(order.props, LAMBDA prop : prop[2] # null)
               /\ SubSeq(OrderByList(compileOrder(order, EmptyBuilder).builder), 1, 5)
                      = OrderByList(EmptyBuilder)
               /\ SubSeq(OrderByList(compileOrder(order, EmptyBuilder).builder), 6,
                         5 + Len(compileOrder(order, EmptyBuilder).builder.orderClauses))
                      = compileOrder(order, EmptyBuilder).builder.orderClauses

\* The store-backed operations that keep the answer of the query executor.
StoreWrites == {"use server addGuideline", "use server updateGuideline"}

\* C24: a store-backed operation whose statement the query executor fails is
\* rejected with an error that has a message and is neither the not-found
\* error (NotFoundException) nor the duplicate-key error (RangeError).
C24_ExecutorFailureIsNoDomainError ==
    (/\ call.op \in StoreWrites
     /\ call.args[Len(call.args)] = QueryFailure)
        => /\ call.outcome = "rejected"
           /\ call.message # ""
           /\ call.error \notin {"NotFoundException", "RangeError"}

\* C28: a guideline the store-backed addGuideline wrote (the executor wrote a
\* row of the values bound to the statement) is read back by getGuidelines
\* with the level it was written with: null as null, a number, 0 too, as
\* that number.
C28_LevelReadBack ==
    (/\ call.op = "use server addGuideline"
     /\ call.outcome = "resolved"
     /\ call.value = Bool(TRUE))
        => rowLevel(insertValues(call.args[1])[3]) = call.args[1].level

\* C26: a field comparator called with two values of its field (artComparison
\* with two arts, compareLevel with two levels, compareName with two names)
\* returns 0 only when the two are the same value.
C26_EqualOnlyForSameValue ==
    (/\ \/ call.op = "artComparison" /\ call.args[1] \in Arts /\ call.args[2] \in Arts
        \/ call.op = "compareLevel" /\ call.args[1] \in Levels /\ call.args[2] \in Levels
        \/ call.op = "compareName" /\ call.args[1] \in Names /\ call.args[2] \in Names
     /\ call.value = Num(0))
        => call.args[1] = call.args[2]

\* C30: compareGuideline is antisymmetric over well-formed keys: the result
\* of comparing a with b is a number, and comparing b with a gives its
\* negation.
C30_CompareGuidelineAntisymmetric ==
    (/\ call.op = "compareGuideline"
     /\ call.args[1].t = "object" /\ WellFormed(call.args[1])
     /\ call.args[2].t = "object" /\ WellFormed(call.args[2]))
        => /\ call.value.t = "number"
           /\ compareGuideline(call.args[2], call.args[1]) = Num(0 - call.value.n)

MemberNames(members) == {members[k].name : k \in 1..Len(members)}

\* C29: addMember of a GuidelineModel or GuidelineGroupModel whose name no
\* member of the group has appends the member; it throws RangeError when a
\* member has the name, and only then; it throws TypeError for a member of
\* another type; and a group constructed with initial members of these
\* types and of distinct names has the members, in order.
C29_AddMember ==
    /\ (call.op = "addMember" /\ IsModelInstance(call.args[1])
            /\ call.args[1].name \notin MemberNames(call.before))
           => /\ call.outcome = "returned"
              /\ group.members = Append(call.before, call.args[1])
    /\ (call.op = "addMember" /\ IsModelInstance(call.args[1]))
           => ((call.outcome = "threw" /\ call.error = "RangeError")
                   <=> call.args[1].name \in MemberNames(call.before))
    /\ (call.op = "addMember" /\ ~IsModelInstance(call.args[1]))
           => call.outcome = "threw" /\ call.error = "TypeError"
    /\ (/\ call.op = "new GuidelineGroupModel"
        /\ \A k \in 1..Len(call.args[2]) : IsModelInstance(call.args[2][k])
        /\ \A j, k \in 1..Len(call.args[2]) :
               call.args[2][j].name = call.args[2][k].name => j = k)
           => /\ call.outcome = "returned"
              /\ group # NoGroup
              /\ group.members = call.args[2]

\* C25: in any interleaving of in-memory addGuideline, updateGuideline and
\* removeGuideline calls, a call that has made its search and not yet its
\* mutation holds the thread, the catalog is the catalog its search read,
\* and no other call is in its body: no call reads or changes the catalog
\* between the search of a call and the mutation made with its index.
C25_SearchAndMutationIndivisible ==
    \A c \in 1..Len(jobs.calls) :
        jobs.calls[c].pc = "found"
            => /\ jobs.running = c
               /\ jobs.calls[c].seen = guidelines
               /\ \A d \in 1..Len(jobs.calls) \ {c} :
                      jobs.calls[d].pc \in {"settled", "observed"}

\* A call is between its search and its mutation while another call, which
\* changed the catalog, is settled and its caller has not continued.
C25_Witness ==
    \E c, d \in 1..Len(jobs.calls) :
        /\ c # d
        /\ jobs.calls[c].pc = "found"
        /\ jobs.calls[c].op \in {"addGuideline", "removeGuideline"}
        /\ jobs.calls[d].pc = "settled"
        /\ jobs.calls[d].seen # guidelines

=============================================================================
